---- MODULE Spec2Model ----
(***************************************************************************)
(* A model of pytorch_retinanet's Lightning glue (src/model.py) and of the *)
(* demo notebook's annotation reader (src/nbs/cuda_error_decode.py).       *)
(*                                                                         *)
(* RetinaNetModel is a LightningModule: the trainer calls its hooks in the *)
(* order of a fit run (on_fit_start, configure_optimizers, on_train_start, *)
(* training_step / validation_step ..., on_train_end) or of a test run     *)
(* (test_dataloader, on_test_start, test_step per batch, test_epoch_end,   *)
(* on_test_end).  `phase` is the trainer's position in that order.  What   *)
(* the wrapped libraries compute (dataset contents, losses, predictions,   *)
(* the evaluator's statistics, the wall clock) is an input chosen from a   *)
(* small set; every object the module builds records the arguments the     *)
(* code passes to its constructor.                                         *)
(*                                                                         *)
(* The demo script is modelled in three further parts, each with its own   *)
(* specification: the annotation reader xml_to_csv (SpecXml), the label    *)
(* pipeline from the encoded targets to the model's num_classes            *)
(* (SpecDemo), and LitModel.optimizer_step with its lr warm-up (SpecLit).  *)
(* SpecHooks invokes LogCallback's timing hooks in any order.              *)
(***************************************************************************)
EXTENDS Integers, Sequences, FiniteSets, TLC

VARIABLES hparams, model, trn_ds, val_ds, test_ds, optimizer, scheduler,
          test_evaluator, cb, log, phase, loader, batch_idx, call, raised,
          n_evals, n_runs,
          xml_pc, xml_pths, xml_file, xml_obj, xml_list, xml_df,
          demo, lit, hist

vars == <<hparams, model, trn_ds, val_ds, test_ds, optimizer, scheduler,
          test_evaluator, cb, log, phase, loader, batch_idx, call, raised,
          n_evals, n_runs,
          xml_pc, xml_pths, xml_file, xml_obj, xml_list, xml_df,
          demo, lit, hist>>

modvars == <<hparams, model, trn_ds, val_ds, test_ds, optimizer, scheduler,
             test_evaluator, cb, log, phase, loader, batch_idx, call, raised,
             n_evals, n_runs>>

xmlvars == <<xml_pc, xml_pths, xml_file, xml_obj, xml_list, xml_df>>

\* the demo script's frames and model (demo) and its LitModel (lit)
nbvars == <<demo, lit>>

(* ------------------------------ bounds -------------------------------- *)
\* images a dataset on disk may hold (0 .. MaxImages)
MaxImages == 2
\* batch sizes the configuration may give (1 .. MaxBs)
MaxBs == 2
\* value of one loss term (0 .. MaxLoss)
MaxLoss == 1
\* value of one entry of the evaluator's stats array (0 .. MaxStat)
MaxStat == 1
\* trainer runs (fit runs, or test passes) started on one module
MaxRuns == 2
\* annotation files given to xml_to_csv, and objects in one file
MaxFiles == 2
MaxObjs == 1
\* annotation rows per spelling of a class name in the demo's frame
MaxCount == 5
\* global steps the trainer runs, parameter groups of the optimizer, and
\* epochs at which the StepLR scheduler decays the learning rate
MaxStep == 502
MaxGroups == 2
MaxDecays == 2

(* ------------------------------ values -------------------------------- *)
\* Python objects are records tagged with their type in `py`.
\* an attribute that has not been assigned yet
Unset == [ py |-> "unset" ]
\* Python's None and False
None == [ py |-> "None" ]
False == [ py |-> "False" ]

Min(a, b) == IF a <= b THEN a ELSE b

\* dataset.kind values tried: the two supported ones and two others
Kinds == {"coco", "pascal", "voc", "COCO"}

\* dataset.test_paths: absent (empty) or an (annotations, images) pair
TestPaths == {<<>>, <<"test_annots", "test_imgs">>}

Hparams ==
  { [ dataset |-> [ kind |-> k, root_dir |-> "root",
                    trn_paths |-> <<"trn_annots", "trn_imgs">>,
                    valid_paths |-> <<"val_annots", "val_imgs">>,
                    test_paths |-> tp ],
      dataloader |-> [ train_bs |-> 1, valid_bs |-> b,
                       test_bs |-> MaxBs + 1 - b ],
      optimizer |-> [ class_name |-> "SGD",
                      params |-> [ lr |-> 1, weight_decay |-> 0 ] ],
      scheduler |-> [ class_name |-> "StepLR", params |-> [ step_size |-> 1 ],
                      interval |-> "epoch", frequency |-> 1 ],
      pascal_transforms |-> <<"HorizontalFlip">>,
      model |-> [ num_classes |-> 80 ] ]
    : k \in Kinds, tp \in TestPaths, b \in 1..MaxBs }

\* _get_model: the detector built from the model section of the config
_get_model(hp) == [ py |-> "Retinanet", args |-> hp.model ]

\* the callback object before any hook has run
NewCallback == [ train_start |-> Unset, train_end |-> Unset,
                 test_start |-> Unset, test_end |-> Unset ]

\* The call the trainer made last: the hook's name, what the detector
\* returned inside it (None when it was not invoked) and the hook's return
\* value.  The trainer drops it when it makes the next call.
Call(op, model_out, ret) == [ op |-> op, model_out |-> model_out, ret |-> ret ]

\* one line written through fancy_logger.info: its text and its argument
Line(msg, arg) == [ msg |-> msg, arg |-> arg ]

\* RetinaNetModel.__init__ (and a fresh LogCallback)
InitModule ==
  /\ hparams \in Hparams
  /\ model = _get_model(hparams)
  /\ trn_ds = Unset /\ val_ds = Unset /\ test_ds = Unset
  /\ optimizer = Unset /\ scheduler = Unset
  /\ test_evaluator = Unset
  /\ cb = NewCallback
  /\ log = Line("", None)
  /\ phase = "init"
  /\ loader = Unset
  /\ batch_idx = 0
  /\ call = Call("__init__", None, None)
  /\ raised = "None"
  /\ n_evals = 0 /\ n_runs = 0

\* the annotation reader is not running
XmlIdle ==
  /\ xml_pc = "idle"
  /\ xml_pths = <<>> /\ xml_file = 0 /\ xml_obj = 0
  /\ xml_list = <<>> /\ xml_df = Unset

\* the demo script is not running
DemoIdle == demo = [ pc |-> "idle" ]

\* the demo's LitModel is not training
LitIdle == lit = [ pc |-> "idle" ]

NbIdle == DemoIdle /\ LitIdle

\* no timing hook has run: the second read by the last on_train_start and
\* by the last on_test_start (-1: none yet)
NoHist == hist = [ train_start |-> -1, test_start |-> -1 ]

Init == InitModule /\ XmlIdle /\ NbIdle /\ NoHist

(* --------------------------- prepare_data ----------------------------- *)
\* a COCO loader call that reads the "train" image set whatever it is asked
CocoDsTrainOnly(root, image_set, tfms, n) ==
  [ py |-> "Dataset", via |-> "get_coco", from |-> <<root>>,
    image_set |-> "train", transforms |-> tfms, len |-> n ]

\* The dataset object get_coco / get_pascal returns: the arguments of the
\* call, and the number of images found on disk (an input).
CocoDs(root, image_set, tfms, n) ==
  [ py |-> "Dataset", via |-> "get_coco", from |-> <<root>>,
    image_set |-> image_set, transforms |-> tfms, len |-> n ]

PascalDs(paths, image_set, tfms, n) ==
  [ py |-> "Dataset", via |-> "get_pascal", from |-> <<paths[1], paths[2]>>,
    image_set |-> image_set, transforms |-> tfms, len |-> n ]

\* Python truth value of what test_ds holds: False is falsy; a dataset is
\* a sized object (its __len__ is called on the loader's dataset), and a
\* sized object without __bool__ is falsy exactly when its length is 0.
Truthy(ds) == IF ds.py = "Dataset" THEN ds.len # 0 ELSE FALSE

\* truth value of a config list
ListTruthy(l) == Len(l) > 0

\* a dispatch that treats every kind other than "coco" as the pascal format
BranchNoRaise(kind) == IF kind = "coco" THEN "coco" ELSE "pascal"

\* the branch of prepare_data a dataset kind selects
Branch(kind) ==
  IF kind = "coco" THEN "coco"
  ELSE IF kind = "pascal" THEN "pascal"
  ELSE "raise"

\* The train set holds at least one image (a shuffling loader refuses an
\* empty dataset); the validation and test sets may be empty.
prepare_data ==
  /\ phase = "init"
  /\ log' = Line("DATASET_KIND", hparams.dataset.kind)
  /\ LET dp == hparams.dataset IN
     IF Branch(dp.kind) = "coco" THEN
       \E nt \in {MaxImages}, nv \in 0..MaxImages :
         /\ trn_ds' = CocoDs(dp.root_dir, "train",
                             <<"ToTensor", "RandomHorizontalFlip">>, nt)
         /\ val_ds' = CocoDs(dp.root_dir, "val", <<"ToTensor">>, nv)
         /\ test_ds' = False
         /\ phase' = "ready"
         /\ UNCHANGED raised
     ELSE IF Branch(dp.kind) = "pascal" THEN
       \E nt \in {MaxImages}, nv \in 0..MaxImages, ns \in 0..MaxImages :
         /\ trn_ds' = PascalDs(dp.trn_paths, "train",
                               hparams.pascal_transforms, nt)
         /\ val_ds' = PascalDs(dp.valid_paths, "test", <<>>, nv)
         /\ test_ds' = IF ListTruthy(dp.test_paths)
                         THEN PascalDs(dp.test_paths, "test", <<>>, ns)
                         ELSE False
         /\ phase' = "ready"
         /\ UNCHANGED raised
     ELSE
       /\ raised' = "ValueError"
       /\ phase' = "aborted"
       /\ UNCHANGED <<trn_ds, val_ds, test_ds>>
  /\ call' = Call("prepare_data", None, None)
  /\ UNCHANGED <<hparams, model, optimizer, scheduler, test_evaluator, cb,
                 loader, batch_idx, n_evals, n_runs, xmlvars, nbvars, hist>>

(* ------------------------------ loaders ------------------------------- *)
\* DataLoader(dataset, batch_size, shuffle=..., collate_fn=collate_fn)
DataLoader(ds, bs, shuffle) ==
  [ py |-> "DataLoader", dataset |-> ds, batch_size |-> bs,
    shuffle |-> shuffle ]

\* number of batches a loader yields: ceil(len / batch_size)
NumBatches(ld) ==
  (ld.dataset.len + ld.batch_size - 1) \div ld.batch_size

\* Dataset.__getitem__: the sample at index idx is (image, target, image_idx)
\* and the target's image_id is the index itself
GetItem(ds, idx) ==
  << [ py |-> "image", of |-> idx ],
     [ image_id |-> idx, boxes |-> <<"boxes", idx>>,
       labels |-> <<"labels", idx>>, area |-> <<"area", idx>>,
       iscrowd |-> <<"iscrowd", idx>> ],
     idx >>

\* collate_fn: tuple(zip(*batch)) turns a list of samples into the triple
\* (images, targets, ids)
collate_fn(samples) ==
  << [ i \in 1..Len(samples) |-> samples[i][1] ],
     [ i \in 1..Len(samples) |-> samples[i][2] ],
     [ i \in 1..Len(samples) |-> samples[i][3] ] >>

\* the k-th batch (k from 0) of a loader that does not shuffle
Batch(ld, k) ==
  LET first == k * ld.batch_size
      n == Min(ld.batch_size, ld.dataset.len - first)
  IN collate_fn([ i \in 1..n |-> GetItem(ld.dataset, first + i - 1) ])

train_dataloader == DataLoader(trn_ds, hparams.dataloader.train_bs, TRUE)

(* -------------------------- test_dataloader --------------------------- *)
\* a test loader that batches the test set with the validation batch size
TestLoaderValidBs ==
  IF ~Truthy(test_ds)
    THEN DataLoader(val_ds, hparams.dataloader.valid_bs, FALSE)
    ELSE DataLoader(test_ds, hparams.dataloader.valid_bs, FALSE)

\* the loader test_dataloader builds: the validation set stands in when
\* test_ds is falsy
TestLoader ==
  IF ~Truthy(test_ds)
    THEN DataLoader(val_ds, hparams.dataloader.valid_bs, FALSE)
    ELSE DataLoader(test_ds, hparams.dataloader.test_bs, FALSE)

\* CocoEvaluator(get_coco_api_from_dataset(ds), ["bbox"]): a new evaluator
\* object (id tells objects apart); `calls` records the calls made on it,
\* `stats` is coco_eval["bbox"].stats, empty until summarize fills it
CocoEvaluator(id, ds) ==
  [ py |-> "CocoEvaluator", id |-> id,
    coco |-> [ py |-> "COCO", dataset |-> ds ],
    iou_types |-> <<"bbox">>, calls |-> <<>>, stats |-> <<>> ]

\* What a call of test_dataloader does to the module.  conv_ok: whether the
\* conversion of the dataset's annotations succeeds; when it raises, the
\* exception leaves test_dataloader and nothing is assigned.
TestDataloaderCall(conv_ok) ==
  IF conv_ok
    THEN /\ test_evaluator' = CocoEvaluator(n_evals + 1, TestLoader.dataset)
         /\ n_evals' = n_evals + 1
         /\ UNCHANGED raised
    ELSE /\ raised' = "ConversionError"
         /\ UNCHANGED <<test_evaluator, n_evals>>

\* the trainer asks for the test loader at the start of a test run
test_dataloader ==
  /\ phase = "ready"
  /\ n_runs < MaxRuns
  /\ n_runs' = n_runs + 1
  /\ \E conv_ok \in BOOLEAN :
       /\ TestDataloaderCall(conv_ok)
       /\ IF conv_ok
            THEN /\ log' = Line("Conversion finished, num images",
                                TestLoader.dataset.len)
                 /\ loader' = TestLoader
                 /\ call' = Call("test_dataloader", None, TestLoader)
                 /\ phase' = "test_loaded"
            ELSE /\ log' = Line("Converting dataset annotations", None)
                 /\ call' = Call("test_dataloader", None, None)
                 /\ phase' = "aborted"
                 /\ UNCHANGED loader
  /\ UNCHANGED <<hparams, model, trn_ds, val_ds, test_ds, optimizer,
                 scheduler, cb, batch_idx, xmlvars, nbvars, hist>>

(* ------------------------------- steps -------------------------------- *)
\* targets = [{k: v for k, v in t.items()} for t in targets]
CopyTargets(targets) ==
  [ i \in 1..Len(targets) |->
      [ k \in DOMAIN targets[i] |-> targets[i][k] ] ]

\* a loss mapping the detector may return: a dict, in insertion order, of
\* (name, value) pairs with distinct names
LossKeys == {"classification_loss", "regression_loss"}

LossDicts ==
  { d \in UNION { [1..n -> LossKeys \X (0..MaxLoss)] : n \in 0..2 } :
      \A i, j \in DOMAIN d : i # j => d[i][1] # d[j][1] }

\* loss_dict.values()
Values(d) == [ i \in 1..Len(d) |-> d[i][2] ]

\* Python's sum(iterable): start at 0 and add the items in order
RECURSIVE PySumFrom(_, _, _)
PySumFrom(acc, xs, i) ==
  IF i > Len(xs) THEN acc ELSE PySumFrom(acc + xs[i], xs, i + 1)

\* a sum that leaves out the first item
PySumSkipFirst(xs) == PySumFrom(0, xs, 2)

PySum(xs) == PySumFrom(0, xs, 1)

\* torch.as_tensor(x): a tensor holding x
AsTensor(x) == [ py |-> "Tensor", item |-> x ]

training_step ==
  /\ phase = "training"
  /\ \E loss_dict \in LossDicts :
       LET losses == PySum(Values(loss_dict))
       IN call' = Call("training_step", loss_dict,
                       [ loss |-> losses, log |-> loss_dict,
                         progress_bar |-> loss_dict ])
  /\ UNCHANGED <<hparams, model, trn_ds, val_ds, test_ds, optimizer,
                 scheduler, test_evaluator, cb, log, phase, loader,
                 batch_idx, raised, n_evals, n_runs, xmlvars, nbvars, hist>>

validation_step ==
  /\ phase = "training"
  /\ \E loss_dict \in LossDicts :
       LET loss == AsTensor(PySum(Values(loss_dict)))
           logs == [ val_loss |-> loss ]
       IN call' = Call("validation_step", loss_dict,
                       [ val_loss |-> loss, log |-> logs,
                         progress_bar |-> logs ])
  /\ UNCHANGED <<hparams, model, trn_ds, val_ds, test_ds, optimizer,
                 scheduler, test_evaluator, cb, log, phase, loader,
                 batch_idx, raised, n_evals, n_runs, xmlvars, nbvars, hist>>

\* self.model.predict(images): one detection result per image
Predict(images) ==
  [ i \in 1..Len(images) |-> [ py |-> "detections", image |-> images[i] ] ]

\* a result keyed by the position in the batch instead of the image id
ZipResByPosition(targets, outputs) ==
  [ i \in 1..Min(Len(targets), Len(outputs)) |-> outputs[i] ]

\* {t["image_id"].item(): o for t, o in zip(targets, outputs)}: zip stops at
\* the shorter list, and a later pair replaces an earlier one with its key
ZipRes(targets, outputs) ==
  LET n == Min(Len(targets), Len(outputs))
      ids == { targets[i].image_id : i \in 1..n }
      Last(id) == CHOOSE i \in 1..n :
                    /\ targets[i].image_id = id
                    /\ \A j \in 1..n : targets[j].image_id = id => j <= i
  IN [ id \in ids |-> outputs[Last(id)] ]

\* evaluator.update(res), accumulate(), summarize(stats): the evaluator
\* after the call
Update(ev, res) ==
  [ ev EXCEPT !.calls = Append(@, [ op |-> "update", res |-> res ]) ]

Accumulate(ev) ==
  [ ev EXCEPT !.calls = Append(@, [ op |-> "accumulate" ]) ]

Summarize(ev, stats) ==
  [ ev EXCEPT !.calls = Append(@, [ op |-> "summarize" ]),
              !.stats = stats ]

test_step ==
  /\ phase = "testing"
  /\ batch_idx < NumBatches(loader)
  /\ LET batch == Batch(loader, batch_idx)
         images == batch[1]
         targets == CopyTargets(batch[2])
         outputs == Predict(images)
         res == ZipRes(targets, outputs)
     IN /\ call' = Call("test_step", outputs, [ py |-> "dict" ])
        /\ test_evaluator' = Update(test_evaluator, res)
  /\ batch_idx' = batch_idx + 1
  /\ UNCHANGED <<hparams, model, trn_ds, val_ds, test_ds, optimizer,
                 scheduler, cb, log, phase, loader, raised, n_evals,
                 n_runs, xmlvars, nbvars, hist>>

\* the stats arrays summarize may produce (their first two entries)
StatsArrays == [{1, 2} -> 0..MaxStat]

\* the second entry of the stats array instead of the first
MetricSecond(ev) == ev.stats[2]

\* coco_eval["bbox"].stats[0]: the first entry
Metric(ev) == ev.stats[1]

\* summarize() called before accumulate()
FinalizeSwapped(ev, stats) == Accumulate(Summarize(ev, stats))

\* accumulate() then summarize() on the evaluator
Finalize(ev, stats) == Summarize(Accumulate(ev), stats)

test_epoch_end ==
  /\ phase = "testing"
  /\ batch_idx = NumBatches(loader)
  /\ log' = Line("Evaluating predictions ...", None)
  /\ \E stats \in StatsArrays :
       /\ test_evaluator' = Finalize(test_evaluator, stats)
       /\ LET metric == AsTensor(Metric(test_evaluator'))
              logs == [ AP |-> metric ]
          IN call' = Call("test_epoch_end", None,
                          [ AP |-> metric, log |-> logs,
                            progress_bar |-> logs ])
  /\ phase' = "test_ended"
  /\ UNCHANGED <<hparams, model, trn_ds, val_ds, test_ds, optimizer,
                 scheduler, cb, loader, batch_idx, raised, n_evals, n_runs, xmlvars, nbvars, hist>>

(* ------------------------- configure_optimizers ----------------------- *)
configure_optimizers ==
  /\ phase = "fit_start"
  /\ optimizer' = [ py |-> hparams.optimizer.class_name,
                    params |-> <<"trainable", model>>,
                    args |-> hparams.optimizer.params ]
  /\ scheduler' = [ scheduler |-> [ py |-> hparams.scheduler.class_name,
                                    optimizer |-> optimizer',
                                    args |-> hparams.scheduler.params ],
                    interval |-> hparams.scheduler.interval,
                    frequency |-> hparams.scheduler.frequency ]
  /\ log' = Line("LR_SCHEDULER_NAME", hparams.scheduler.class_name)
  /\ call' = Call("configure_optimizers", None, <<optimizer', scheduler'>>)
  /\ phase' = "fit_configured"
  /\ UNCHANGED <<hparams, model, trn_ds, val_ds, test_ds, test_evaluator,
                 cb, loader, batch_idx, raised, n_evals, n_runs, xmlvars, nbvars, hist>>

(* ----------------------------- LogCallback ---------------------------- *)
\* datetime.datetime.now(): a reading of the wall clock, seconds and
\* microseconds
Readings == [ py : {"datetime"}, s : {0, 1}, us : {0, 500} ]

\* dt.replace(microsecond=0)
ReplaceMicrosecond0(dt) == [ dt EXCEPT !.us = 0 ]

\* end - start of two datetimes
Elapsed(end, start) ==
  [ py |-> "timedelta", s |-> end.s - start.s, us |-> end.us - start.us ]

on_fit_start ==
  /\ phase = "ready"
  /\ n_runs < MaxRuns
  /\ n_runs' = n_runs + 1
  /\ log' = Line("MAX_EPOCHS", "max_epochs")
  /\ call' = Call("on_fit_start", None, None)
  /\ phase' = "fit_start"
  /\ UNCHANGED <<hparams, model, trn_ds, val_ds, test_ds, optimizer,
                 scheduler, test_evaluator, cb, loader, batch_idx, raised,
                 n_evals, xmlvars, nbvars, hist>>

\* the body of on_train_start, called at clock reading `now`
TrainStart(now) ==
  /\ cb' = [ cb EXCEPT !.train_start = ReplaceMicrosecond0(now) ]
  /\ hist' = [ hist EXCEPT !.train_start = now.s ]
  /\ log' = Line("Training from iteration", "global_step")
  /\ call' = Call("on_train_start", None, None)

on_train_start ==
  /\ phase = "fit_configured"
  /\ \E now \in Readings : TrainStart(now)
  /\ phase' = "training"
  /\ UNCHANGED <<hparams, model, trn_ds, val_ds, test_ds, optimizer,
                 scheduler, test_evaluator, loader, batch_idx, raised,
                 n_evals, n_runs, xmlvars, nbvars>>

\* the body of on_train_end: self.train_end is assigned first; reading
\* self.train_start raises AttributeError when no on_train_start has
\* assigned it (LogCallback has no __init__), and then nothing is logged
TrainEnd(now) ==
  /\ cb' = [ cb EXCEPT !.train_end = ReplaceMicrosecond0(now) ]
  /\ IF cb.train_start.py = "unset"
       THEN /\ raised' = "AttributeError"
            /\ UNCHANGED log
       ELSE /\ log' = Line("Total compute time",
                           Elapsed(cb'.train_end, cb'.train_start))
            /\ UNCHANGED raised
  /\ call' = Call("on_train_end", None, None)

on_train_end ==
  /\ phase = "training"
  /\ \E now \in Readings : TrainEnd(now)
  /\ phase' = IF cb.train_start.py = "unset" THEN "aborted" ELSE "ready"
  /\ UNCHANGED <<hparams, model, trn_ds, val_ds, test_ds, optimizer,
                 scheduler, test_evaluator, loader, batch_idx,
                 n_evals, n_runs, xmlvars, nbvars, hist>>

\* the body of on_test_start.  It asks the module for its test loader to
\* count the images: the whole body of test_dataloader runs again
TestStart(now, conv_ok) ==
  /\ cb' = [ cb EXCEPT !.test_start = ReplaceMicrosecond0(now) ]
  /\ hist' = [ hist EXCEPT !.test_start = now.s ]
  /\ TestDataloaderCall(conv_ok)
  /\ IF conv_ok
       THEN log' = Line("Start Inference on images", TestLoader.dataset.len)
       ELSE log' = Line("Converting dataset annotations", None)
  /\ call' = Call("on_test_start", None, None)

on_test_start ==
  /\ phase = "test_loaded"
  /\ \E now \in Readings, conv_ok \in BOOLEAN :
       /\ TestStart(now, conv_ok)
       /\ phase' = IF conv_ok THEN "testing" ELSE "aborted"
  /\ batch_idx' = 0
  /\ UNCHANGED <<hparams, model, trn_ds, val_ds, test_ds, optimizer,
                 scheduler, loader, n_runs, xmlvars, nbvars>>

\* the body of on_test_end, as on_train_end
TestEnd(now) ==
  /\ cb' = [ cb EXCEPT !.test_end = ReplaceMicrosecond0(now) ]
  /\ IF cb.test_start.py = "unset"
       THEN /\ raised' = "AttributeError"
            /\ UNCHANGED log
       ELSE /\ log' = Line("Total inference time",
                           Elapsed(cb'.test_end, cb'.test_start))
            /\ UNCHANGED raised
  /\ call' = Call("on_test_end", None, None)

on_test_end ==
  /\ phase = "test_ended"
  /\ \E now \in Readings : TestEnd(now)
  /\ phase' = IF cb.test_start.py = "unset" THEN "aborted" ELSE "ready"
  /\ UNCHANGED <<hparams, model, trn_ds, val_ds, test_ds, optimizer,
                 scheduler, test_evaluator, loader, batch_idx,
                 n_evals, n_runs, xmlvars, nbvars, hist>>

\* The same four hooks invoked on the callback in any order, as a caller
\* other than a well-ordered trainer run can: after prepare_data, until a
\* hook raises.
hook_train_start ==
  /\ phase = "ready"
  /\ \E now \in Readings : TrainStart(now)
  /\ UNCHANGED <<hparams, model, trn_ds, val_ds, test_ds, optimizer,
                 scheduler, test_evaluator, loader, batch_idx, raised,
                 phase, n_evals, n_runs, xmlvars, nbvars>>

hook_train_end ==
  /\ phase = "ready"
  /\ \E now \in Readings : TrainEnd(now)
  /\ phase' = IF cb.train_start.py = "unset" THEN "aborted" ELSE "ready"
  /\ UNCHANGED <<hparams, model, trn_ds, val_ds, test_ds, optimizer,
                 scheduler, test_evaluator, loader, batch_idx,
                 n_evals, n_runs, xmlvars, nbvars, hist>>

hook_test_start ==
  /\ phase = "ready"
  /\ n_evals < MaxRuns
  /\ \E now \in Readings, conv_ok \in BOOLEAN :
       /\ TestStart(now, conv_ok)
       /\ phase' = IF conv_ok THEN "ready" ELSE "aborted"
  /\ UNCHANGED <<hparams, model, trn_ds, val_ds, test_ds, optimizer,
                 scheduler, loader, batch_idx, n_runs, xmlvars, nbvars>>

hook_test_end ==
  /\ phase = "ready"
  /\ \E now \in Readings : TestEnd(now)
  /\ phase' = IF cb.test_start.py = "unset" THEN "aborted" ELSE "ready"
  /\ UNCHANGED <<hparams, model, trn_ds, val_ds, test_ds, optimizer,
                 scheduler, test_evaluator, loader, batch_idx,
                 n_evals, n_runs, xmlvars, nbvars, hist>>

(* ----------------------------- xml_to_csv ----------------------------- *)
\* float(text) of the text of a coordinate element: a text that is not a
\* number ("x") makes float raise
CanFloat(t) == t \in {"10", "20"}

Float(t) == IF t = "10" THEN 10 ELSE 20

\* An <object> element m: how many children it has (m[4] is the fifth) and
\* the texts of the children of m[4]
Objects ==
  { [ children |-> 5, bndbox |-> <<"10", "10", "20", "20">> ],
    [ children |-> 5, bndbox |-> <<"10", "x", "20", "20">> ],
    [ children |-> 4, bndbox |-> <<>> ] }

\* An annotation file: whether ET.parse accepts it, whether its root has a
\* <filename> element, and its <object> elements
XmlFiles ==
  { [ well_formed |-> FALSE, has_filename |-> FALSE, objects |-> <<>> ] }
  \cup
  { [ well_formed |-> TRUE, has_filename |-> hf, objects |-> os ] :
      hf \in BOOLEAN,
      os \in UNION { [1..n -> Objects] : n \in 0..MaxObjs } }

XmlInputs == UNION { [1..n -> XmlFiles] : n \in 0..MaxFiles }

\* whether the body of the try block raises for object m of the file
TryRaises(file, m) ==
  \/ ~file.has_filename
  \/ m.children < 5
  \/ Len(m.bndbox) < 4
  \/ \E i \in 1..4 : ~CanFloat(m.bndbox[i])

\* the row the try block builds: the image path and the four coordinates
Row(file, m) ==
  << <<"img_desc", "filename">>, Float(m.bndbox[1]), Float(m.bndbox[2]),
     Float(m.bndbox[3]), Float(m.bndbox[4]) >>

\* pd.DataFrame(xml_list, columns=col_n)
DataFrame(rows) ==
  [ py |-> "DataFrame",
    columns |-> <<"filename", "xmin", "ymin", "xmax", "ymax">>,
    rows |-> rows ]

\* xml_to_csv(pths) is called with some list of annotation files
InitXml ==
  /\ InitModule
  /\ hparams.dataset.kind = "coco"
  /\ hparams.dataset.test_paths = <<>>
  /\ hparams.dataloader.valid_bs = 1
  /\ xml_pc = "files"
  /\ xml_pths \in XmlInputs
  /\ xml_file = 1
  /\ xml_obj = 0
  /\ xml_list = <<>>
  /\ xml_df = Unset
  /\ NbIdle /\ NoHist

\* position after object xml_obj of file xml_file has been handled
XmlAdvance(file, obj) ==
  IF obj < Len(xml_pths[file].objects)
    THEN /\ xml_obj' = obj + 1
         /\ xml_file' = file
         /\ xml_pc' = "objects"
    ELSE /\ xml_obj' = 0
         /\ xml_file' = file + 1
         /\ xml_pc' = "files"

\* a reader that also skips a file ET.parse rejects
xml_parse_skipping ==
  /\ xml_pc = "files"
  /\ xml_file <= Len(xml_pths)
  /\ IF xml_pths[xml_file].well_formed
       THEN XmlAdvance(xml_file, 0)
       ELSE /\ xml_file' = xml_file + 1
            /\ UNCHANGED <<xml_pc, xml_obj>>
  /\ UNCHANGED <<xml_pths, xml_list, xml_df, modvars, nbvars, hist>>

\* for xml_file in pths: tree = ET.parse(xml_file); a malformed file raises
\* out of xml_to_csv
xml_parse ==
  /\ xml_pc = "files"
  /\ xml_file <= Len(xml_pths)
  /\ IF xml_pths[xml_file].well_formed
       THEN /\ XmlAdvance(xml_file, 0)
            /\ UNCHANGED raised
       ELSE /\ raised' = "ParseError"
            /\ xml_pc' = "raised"
            /\ UNCHANGED <<xml_file, xml_obj>>
  /\ UNCHANGED <<xml_pths, xml_list, xml_df>>
  /\ UNCHANGED <<hparams, model, trn_ds, val_ds, test_ds, optimizer,
                 scheduler, test_evaluator, cb, log, phase, loader,
                 batch_idx, call, n_evals, n_runs, nbvars, hist>>

\* for m in root.findall("object"): try: xml_list.append(value)
\* except: pass
xml_object ==
  /\ xml_pc = "objects"
  /\ LET file == xml_pths[xml_file]
         m == file.objects[xml_obj]
     IN xml_list' = IF TryRaises(file, m)
                      THEN xml_list
                      ELSE Append(xml_list, Row(file, m))
  /\ XmlAdvance(xml_file, xml_obj)
  /\ UNCHANGED <<xml_pths, xml_df>>
  /\ UNCHANGED <<modvars, nbvars, hist>>

\* df = pd.DataFrame(xml_list, columns=col_n); return df
xml_return ==
  /\ xml_pc = "files"
  /\ xml_file > Len(xml_pths)
  /\ xml_df' = DataFrame(xml_list)
  /\ xml_pc' = "returned"
  /\ UNCHANGED <<xml_pths, xml_file, xml_obj, xml_list>>
  /\ UNCHANGED <<modvars, nbvars, hist>>


(* ------------------------- demo: label pipeline ----------------------- *)
\* The demo script keeps one row per annotated box.  A frame is modelled by
\* how many rows it holds of each kind: the shuffles (df.sample(frac=1),
\* shuffle=True) permute rows and leave these counts as they are.

\* the class part of an annotation's filename, as pat.search extracts it
RawClasses == {"Bengal", "bengal", "boxer", "pug"}

\* .lower()
Lower(c) == IF c = "Bengal" THEN "bengal" ELSE c

Classes == {Lower(c) : c \in RawClasses}

\* the place of a class name in sorted order
ClassRank == [c \in Classes |->
               CASE c = "bengal" -> 1 [] c = "boxer" -> 2 [] c = "pug" -> 3]

\* the integers a target can be
Labels == 0..Cardinality(Classes)

RECURSIVE SetSum(_, _)
SetSum(f, S) ==
  IF S = {} THEN 0
  ELSE LET x == CHOOSE y \in S : TRUE IN f[x] + SetSum(f, S \ {x})

\* df["class"] = [pat.search(fname).group(1).lower() for fname in df.filename]
ClassColumn(rows) ==
  [c \in Classes |-> SetSum(rows, {r \in RawClasses : Lower(r) = c})]

\* LabelEncoder.fit: classes_ is the sorted unique values of the column
fit(col) == {c \in Classes : col[c] > 0}

\* LabelEncoder.transform: the index of the value in classes_
transform(classes, c) ==
  Cardinality({d \in classes : ClassRank[d] < ClassRank[c]})

Target0(classes, c) == transform(classes, c)

\* le.fit_transform(df["class"].values) + 1
Target(classes, c) == transform(classes, c) + 1

\* the frame by target: rows of each target value
TargetColumn(col) ==
  LET classes == fit(col)
  IN  [l \in Labels |->
        SetSum(col, {c \in classes : Target(classes, c) = l})]

\* len(frame)
Size(frame) == SetSum(frame, Labels)

\* frame["target"].unique()
Unique(frame) == {l \in Labels : frame[l] > 0}

Ceil(a, b) == (a + b - 1) \div b

\* train_test_split(frame, stratify=frame.target, test_size=num/den):
\* n_test = ceil(test_size * n), n_train = n - n_test; it raises ValueError
\* for an empty frame or train part, for a class with fewer than 2 rows and
\* for a part smaller than the number of classes
n_test(frame, num, den) == Ceil(Size(frame) * num, den)

n_train(frame, num, den) == Size(frame) - n_test(frame, num, den)

SplitRaises(frame, num, den) ==
  LET k == Cardinality(Unique(frame))
  IN  \/ Size(frame) = 0
      \/ n_train(frame, num, den) = 0
      \/ \E l \in Unique(frame) : frame[l] < 2
      \/ n_train(frame, num, den) < k
      \/ n_test(frame, num, den) < k

\* sklearn's _approximate_mode(class_counts, n_draws): every class gets
\* floor(count * n_draws / n) rows, and the rows still missing go one each
\* to the classes with the largest remainders, ties broken at random
\* (exact arithmetic; count * n_draws % n orders the remainders)
_approximate_mode(class_counts, n_draws) ==
  LET n == Size(class_counts)
      floored == [l \in Labels |-> (class_counts[l] * n_draws) \div n]
      remainder == [l \in Labels |-> (class_counts[l] * n_draws) % n]
      need_to_add == n_draws - Size(floored)
      picks == {A \in SUBSET Unique(class_counts) :
                  /\ Cardinality(A) = need_to_add
                  /\ \A a \in A, b \in Unique(class_counts) \ A :
                       remainder[a] >= remainder[b]}
  IN  {[l \in Labels |-> floored[l] + (IF l \in A THEN 1 ELSE 0)] :
         A \in picks}

\* the (train, test) pairs a stratified split can return
train_test_split(frame, num, den) ==
  {[train |-> t, test |-> [l \in Labels |-> frame[l] - t[l]]] :
     t \in _approximate_mode(frame, n_train(frame, num, den))}

\* the frame xml_to_csv returned: rows per class spelling
DemoFrames == [RawClasses -> 0..MaxCount]

\* the script has read the annotations
InitDemo ==
  /\ InitModule
  /\ hparams.dataset.kind = "coco"
  /\ hparams.dataset.test_paths = <<>>
  /\ hparams.dataloader.valid_bs = 1
  /\ XmlIdle /\ LitIdle /\ NoHist
  /\ \E rows \in DemoFrames :
       demo = [ pc |-> "read", rows |-> rows, df |-> Unset,
                df_train |-> Unset, df_test |-> Unset,
                num_classes |-> Unset ]

\* df["class"] = ...; df["target"] = le.fit_transform(...) + 1;
\* df = df.sample(frac=1).reset_index(drop=True)
demo_encode ==
  /\ demo.pc = "read"
  /\ demo' = [demo EXCEPT !.pc = "encoded",
                          !.df = TargetColumn(ClassColumn(demo.rows))]
  /\ UNCHANGED <<modvars, xmlvars, lit, hist>>

\* df, _ = train_test_split(df, stratify=df.target, test_size=0.5)
demo_subsample ==
  /\ demo.pc = "encoded"
  /\ IF SplitRaises(demo.df, 1, 2)
       THEN demo' = [demo EXCEPT !.pc = "raised"]
       ELSE \E r \in train_test_split(demo.df, 1, 2) :
              demo' = [demo EXCEPT !.pc = "subsampled", !.df = r.train]
  /\ UNCHANGED <<modvars, xmlvars, lit, hist>>

\* df_train, df_test = train_test_split(df, stratify=df["target"],
\*                                      test_size=0.25)
demo_split ==
  /\ demo.pc = "subsampled"
  /\ IF SplitRaises(demo.df, 1, 4)
       THEN demo' = [demo EXCEPT !.pc = "raised"]
       ELSE \E r \in train_test_split(demo.df, 1, 4) :
              demo' = [demo EXCEPT !.pc = "split",
                                   !.df_train = r.train,
                                   !.df_test = r.test]
  /\ UNCHANGED <<modvars, xmlvars, lit, hist>>

\* Retinanet(num_classes=len(df["target"].unique()), ...)
demo_model ==
  /\ demo.pc = "split"
  /\ demo' = [demo EXCEPT !.pc = "model",
                          !.num_classes = Cardinality(Unique(demo.df))]
  /\ UNCHANGED <<modvars, xmlvars, lit, hist>>


(* ------------------------ demo: LitModel warm-up ---------------------- *)
\* if self.trainer.global_step < 500
Warmup == 500

RECURSIVE Pow10(_)
Pow10(n) == IF n = 0 THEN 1 ELSE 10 * Pow10(n - 1)

\* MAX_LR = 1e-03.  Learning rates are exact multiples of the unit
\* 1e-03 / (500 * 10^MaxDecays), so that alpha * max_lr and every decay by
\* gamma = 0.9 the model takes is an integer number of units.
MAX_LR == Warmup * Pow10(MaxDecays)

alpha0(global_step) == [ num |-> Min(Warmup, global_step), den |-> Warmup ]

\* alpha = min(1.0, float(self.trainer.global_step + 1) / 500.0)
alpha(global_step) ==
  [ num |-> Min(Warmup, global_step + 1), den |-> Warmup ]

\* for pg in self.optimizer.param_groups: pg["lr"] = alpha * self.max_lr
SetLr(param_groups, a, max_lr) ==
  [g \in DOMAIN param_groups |->
     [param_groups[g] EXCEPT !.lr = (a.num * max_lr) \div a.den]]

\* the body of optimizer_step down to the parameter update
WarmupLr(param_groups, global_step, max_lr) ==
  IF global_step < Warmup
    THEN SetLr(param_groups, alpha(global_step), max_lr)
    ELSE param_groups

\* StepLR(optimizer, step_size=10, gamma=0.9) at an epoch that is a
\* multiple of step_size: every group's lr is multiplied by gamma
StepLR(param_groups) ==
  [g \in DOMAIN param_groups |->
     [param_groups[g] EXCEPT !.lr = (param_groups[g].lr * 9) \div 10]]

\* optim.SGD(..., lr=MAX_LR, ...); LitModel(model, optimizer, train_dl,
\* val_dl, max_lr=MAX_LR, scheduler=lr_scheduler); trainer.fit begins.
\* last and prev are the two latest optimizer_step calls: the global step,
\* the groups on entry, the groups optimizer.step() used, and the
\* optimizer's methods in the order they were called.
InitLit ==
  /\ InitModule
  /\ hparams.dataset.kind = "coco"
  /\ hparams.dataset.test_paths = <<>>
  /\ hparams.dataloader.valid_bs = 1
  /\ XmlIdle /\ DemoIdle /\ NoHist
  /\ \E n \in 1..MaxGroups :
       lit = [ pc |-> "ready",
               global_step |-> 0,
               param_groups |-> [g \in 1..n |-> [ lr |-> MAX_LR ]],
               max_lr |-> MAX_LR,
               grads |-> "none",
               decays |-> 0,
               last |-> None,
               prev |-> None ]

\* the trainer runs training_step and backward on the next batch
lit_backward ==
  /\ lit.pc = "ready"
  /\ lit.global_step < MaxStep
  /\ lit' = [lit EXCEPT !.pc = "backward", !.grads = "computed"]
  /\ UNCHANGED <<modvars, xmlvars, demo, hist>>

\* LitModel.optimizer_step
optimizer_step ==
  /\ lit.pc = "backward"
  /\ LET groups == WarmupLr(lit.param_groups, lit.global_step, lit.max_lr)
     IN  lit' = [lit EXCEPT
                   !.pc = "stepped",
                   !.param_groups = groups,
                   !.grads = "cleared",
                   !.prev = lit.last,
                   !.last = [ py |-> "call",
                              global_step |-> lit.global_step,
                              entry |-> lit.param_groups,
                              stepped |-> groups,
                              ops |-> <<"step", "zero_grad">> ]]
  /\ UNCHANGED <<modvars, xmlvars, demo, hist>>

\* the trainer counts the step
lit_advance ==
  /\ lit.pc = "stepped"
  /\ lit' = [lit EXCEPT !.pc = "ready",
                        !.global_step = lit.global_step + 1]
  /\ UNCHANGED <<modvars, xmlvars, demo, hist>>

\* an epoch ends between two batches and the scheduler decays the lr
lit_scheduler_step ==
  /\ lit.pc = "ready"
  /\ lit.decays < MaxDecays
  /\ lit' = [lit EXCEPT !.param_groups = StepLR(lit.param_groups),
                        !.decays = lit.decays + 1]
  /\ UNCHANGED <<modvars, xmlvars, demo, hist>>

(* --------------------------- specification ---------------------------- *)
\* the module under trainer.test: prepare_data, then test passes
Next ==
  \/ prepare_data
  \/ test_dataloader
  \/ on_test_start
  \/ test_step
  \/ test_epoch_end
  \/ on_test_end

Spec == Init /\ [][Next]_vars

\* the module under trainer.fit: prepare_data, then fit runs
NextFit ==
  \/ prepare_data
  \/ on_fit_start
  \/ configure_optimizers
  \/ on_train_start
  \/ training_step
  \/ validation_step
  \/ on_train_end

SpecFit == Init /\ [][NextFit]_vars
\* the demo's annotation reader
NextXml == xml_parse \/ xml_object \/ xml_return

SpecXml == InitXml /\ [][NextXml]_vars

\* the demo script from the frame of annotations to the model
NextDemo == demo_encode \/ demo_subsample \/ demo_split \/ demo_model

SpecDemo == InitDemo /\ [][NextDemo]_vars

\* the demo's LitModel under trainer.fit
NextLit ==
  \/ lit_backward
  \/ optimizer_step
  \/ lit_advance
  \/ lit_scheduler_step

SpecLit == InitLit /\ [][NextLit]_vars

\* LogCallback's timing hooks in any order
NextHooks ==
  \/ prepare_data
  \/ hook_train_start
  \/ hook_train_end
  \/ hook_test_start
  \/ hook_test_end

SpecHooks == Init /\ [][NextHooks]_vars

(* ------------------------------ claims -------------------------------- *)
Supported == {"coco", "pascal"}

\* C1: for every dataset.kind other than "coco" and "pascal", prepare_data
\* fails with the ValueError and has assigned none of the train,
\* validation and test datasets.
C1_UnsupportedKindRaises ==
  (hparams.dataset.kind \notin Supported /\ phase # "init") =>
    /\ raised = "ValueError"
    /\ phase = "aborted"
    /\ call.op = "prepare_data"
    /\ trn_ds = Unset /\ val_ds = Unset /\ test_ds = Unset

C1_Witness ==
  /\ call.op = "prepare_data"
  /\ hparams.dataset.kind = "COCO"
  /\ raised = "ValueError"

\* C2: with kind "coco", prepare_data builds the train and validation
\* datasets through the COCO loader, from image sets "train" and "val"
\* under dataset.root_dir, and leaves the test dataset falsy whatever
\* test_paths holds.
C2_CocoDatasets ==
  (hparams.dataset.kind = "coco" /\ phase # "init") =>
    /\ trn_ds.via = "get_coco" /\ val_ds.via = "get_coco"
    /\ trn_ds.from = <<hparams.dataset.root_dir>>
    /\ val_ds.from = <<hparams.dataset.root_dir>>
    /\ trn_ds.image_set = "train"
    /\ val_ds.image_set = "val"
    /\ test_ds = False
    /\ ~Truthy(test_ds)

C2_Witness ==
  /\ call.op = "prepare_data"
  /\ hparams.dataset.kind = "coco"
  /\ hparams.dataset.test_paths # <<>>
  /\ val_ds.len > 0

\* C3: with kind "pascal" and test_paths present, prepare_data produces a
\* non-falsy test dataset, so that test_dataloader takes the test-dataset
\* branch (its loader iterates test_ds) and not the validation fallback.
C3_PascalTestDatasetTruthy ==
  (/\ hparams.dataset.kind = "pascal"
   /\ ListTruthy(hparams.dataset.test_paths)
   /\ phase # "init") =>
    /\ Truthy(test_ds)
    /\ (call.op = "test_dataloader" /\ raised = "None" =>
          call.ret.dataset = test_ds)

\* the sum of the values of a loss mapping, term by term over its entries
RECURSIVE TermSum(_, _)
TermSum(d, S) ==
  IF S = {} THEN 0
  ELSE LET i == CHOOSE x \in S : TRUE
       IN d[i][2] + TermSum(d, S \ {i})

\* C4: training_step returns under "loss", and validation_step under
\* "val_loss", exactly the sum of all values of the loss mapping the model
\* returned for the batch: no term dropped, weighted or counted twice.
C4_LossIsSumOfTerms ==
  /\ call.op = "training_step" =>
       call.ret.loss = TermSum(call.model_out, DOMAIN call.model_out)
  /\ call.op = "validation_step" =>
       /\ call.ret.val_loss.py = "Tensor"
       /\ call.ret.val_loss.item
            = TermSum(call.model_out, DOMAIN call.model_out)

C4_Witness ==
  /\ call.op = "training_step"
  /\ Len(call.model_out) = 2
  /\ call.model_out[1][2] = 1 /\ call.model_out[2][2] = 1
  /\ call.ret.loss = 2

\* the last call recorded on an evaluator
LastCall(ev) == ev.calls[Len(ev.calls)]

\* C5: the metric test_epoch_end returns under "AP", and in its log and
\* progress_bar mappings, is the first entry of the evaluator's stats array
\* for "bbox", read after accumulate and summarize have run.
C5_MetricIsFirstStat ==
  call.op = "test_epoch_end" =>
    /\ Len(test_evaluator.calls) >= 2
    /\ LastCall(test_evaluator).op = "summarize"
    /\ test_evaluator.calls[Len(test_evaluator.calls) - 1].op = "accumulate"
    /\ call.ret.AP.py = "Tensor"
    /\ call.ret.AP.item = test_evaluator.stats[1]
    /\ call.ret.log.AP = call.ret.AP
    /\ call.ret.progress_bar.AP = call.ret.AP

C5_Witness ==
  /\ call.op = "test_epoch_end"
  /\ test_evaluator.stats[1] = 1
  /\ test_evaluator.stats[2] = 0
  /\ call.ret.AP.item = 1

\* a step of one of the LogCallback hooks
LogCallbackHook ==
  \/ on_fit_start \/ on_train_start \/ on_train_end
  \/ on_test_start \/ on_test_end

\* C6: the logging callbacks are purely observational: a LogCallback hook
\* leaves the module's datasets, model, optimizer and test evaluator
\* unchanged and raises nothing into the run.
C6_HooksObserveOnly ==
  [][LogCallbackHook =>
       UNCHANGED <<trn_ds, val_ds, test_ds, model, optimizer, scheduler,
                   test_evaluator, raised>>]_vars

\* the calls an evaluator has received are n updates, update i carrying
\* the result of batch i - 1 of the loader
UpdatesOfBatches(ev, n) ==
  \A i \in 1..n :
    /\ ev.calls[i].op = "update"
    /\ DOMAIN ev.calls[i].res
         = { Batch(loader, i - 1)[2][j].image_id :
               j \in 1..Len(Batch(loader, i - 1)[2]) }

\* C7: within a test pass every test_step update reaches the evaluator
\* that test_epoch_end finalizes; that evaluator is finalized exactly once,
\* by accumulate followed by summarize, after the last update; no update
\* of the pass is lost by the evaluator being replaced in between.
C7_OneEvaluatorPerPass ==
  /\ phase = "testing" =>
       /\ Len(test_evaluator.calls) = batch_idx
       /\ UpdatesOfBatches(test_evaluator, batch_idx)
       /\ test_evaluator.stats = <<>>
  /\ phase = "test_ended" =>
       /\ Len(test_evaluator.calls) = NumBatches(loader) + 2
       /\ UpdatesOfBatches(test_evaluator, NumBatches(loader))
       /\ test_evaluator.calls[NumBatches(loader) + 1].op = "accumulate"
       /\ test_evaluator.calls[NumBatches(loader) + 2].op = "summarize"

C7_Witness ==
  /\ phase = "test_ended"
  /\ NumBatches(loader) = 2
  /\ test_evaluator.calls[2].op = "update"

\* some <object> element of the input makes the body of the try raise
SomeObjectRaises ==
  \E f \in 1..Len(xml_pths) : \E k \in 1..Len(xml_pths[f].objects) :
    TryRaises(xml_pths[f], xml_pths[f].objects[k])

SomeFileMalformed ==
  \E f \in 1..Len(xml_pths) : ~xml_pths[f].well_formed

\* C8 as stated: no failure is caught: when converting an annotation
\* fails, xml_to_csv does not return a result.
C8_NoFailureSwallowed ==
  xml_pc = "returned" => ~SomeObjectRaises /\ ~SomeFileMalformed

\* the rows of the objects of files f.. that convert, in order
RECURSIVE RowsFrom(_, _)
RowsFrom(f, k) ==
  IF f > Len(xml_pths) THEN <<>>
  ELSE IF k > Len(xml_pths[f].objects) THEN RowsFrom(f + 1, 1)
  ELSE LET file == xml_pths[f]
           m == file.objects[k]
           ok == /\ file.has_filename /\ m.children >= 5
                 /\ Len(m.bndbox) >= 4
                 /\ \A i \in 1..4 : m.bndbox[i] \in {"10", "20"}
       IN (IF ok THEN << Row(file, m) >> ELSE <<>>) \o RowsFrom(f, k + 1)

\* C8 (amended): a failure of ET.parse on a file propagates out of
\* xml_to_csv, which then returns nothing; a failure raised while one
\* <object> element is converted is caught, the object is skipped, and
\* xml_to_csv returns the rows of the objects that did convert.
C8_OnlyObjectFailuresSwallowed ==
  /\ xml_pc = "returned" =>
       /\ ~SomeFileMalformed
       /\ raised = "None"
       /\ xml_df.rows = RowsFrom(1, 1)
  /\ xml_pc = "raised" =>
       /\ raised = "ParseError"
       /\ xml_df = Unset
       /\ ~xml_pths[xml_file].well_formed
       /\ \A f \in 1..(xml_file - 1) : xml_pths[f].well_formed
  /\ xml_pc \in {"files", "objects"} => raised = "None" /\ xml_df = Unset

C8_Witness ==
  /\ xml_pc = "returned"
  /\ SomeObjectRaises
  /\ Len(xml_df.rows) = 1

\* the loader test_dataloader is to return
ExpectedTestLoader ==
  IF Truthy(test_ds)
    THEN [ py |-> "DataLoader", dataset |-> test_ds,
           batch_size |-> hparams.dataloader.test_bs, shuffle |-> FALSE ]
    ELSE [ py |-> "DataLoader", dataset |-> val_ds,
           batch_size |-> hparams.dataloader.valid_bs, shuffle |-> FALSE ]

\* C9: test_dataloader builds the evaluator from exactly the dataset the
\* returned loader iterates: the test dataset with batch size test_bs when
\* the test dataset is truthy, otherwise the validation dataset with batch
\* size valid_bs.
C9_EvaluatorOfLoaderDataset ==
  /\ (call.op = "test_dataloader" /\ raised = "None") =>
       /\ call.ret = ExpectedTestLoader
       /\ test_evaluator.coco.dataset = call.ret.dataset
       /\ test_evaluator.calls = <<>>
  /\ phase \in {"test_loaded", "testing", "test_ended"} =>
       /\ loader = ExpectedTestLoader
       /\ test_evaluator.coco.dataset = loader.dataset

C9_Witness ==
  /\ call.op = "test_dataloader"
  /\ phase = "test_loaded"
  /\ Truthy(test_ds)
  /\ test_ds.len # val_ds.len
  /\ hparams.dataloader.test_bs # hparams.dataloader.valid_bs
  /\ call.ret.batch_size = hparams.dataloader.test_bs

\* C10: test_step hands the evaluator one prediction per image of the
\* batch, keyed by the image's id and holding the prediction at the same
\* batch position as its target; the number of entries equals the number
\* of images in the batch.
C10_OneResultPerImage ==
  call.op = "test_step" =>
    LET batch == Batch(loader, batch_idx - 1)
        images == batch[1]
        targets == batch[2]
        res == LastCall(test_evaluator).res
    IN /\ LastCall(test_evaluator).op = "update"
       /\ Len(call.model_out) = Len(images)
       /\ Cardinality(DOMAIN res) = Len(images)
       /\ \A i \in 1..Len(images) :
            /\ targets[i].image_id \in DOMAIN res
            /\ res[targets[i].image_id] = call.model_out[i]
            /\ call.model_out[i].image = images[i]

C10_Witness ==
  /\ call.op = "test_step"
  /\ batch_idx = 1
  /\ Cardinality(DOMAIN LastCall(test_evaluator).res) = 2

\* the target the encoder gives class c among the classes of the rows
EncodedIndex(rows, c) ==
  Cardinality({d \in Classes : /\ ClassRank[d] < ClassRank[c]
                               /\ \E r \in RawClasses :
                                    Lower(r) = d /\ rows[r] > 0})

\* C11: in the demo pipeline every target is the encoded class index plus
\* one, 0 is never a target, and once the model is built every target of
\* the train and test frames lies in 1..num_classes.
C11_LabelsWithinNumClasses ==
  /\ demo.pc = "encoded" =>
       /\ demo.df[0] = 0
       /\ \A r \in RawClasses :
            demo.rows[r] > 0 =>
              demo.df[EncodedIndex(demo.rows, Lower(r)) + 1] =
                SetSum(demo.rows, {q \in RawClasses : Lower(q) = Lower(r)})
  /\ demo.pc \in {"subsampled", "split", "model"} => demo.df[0] = 0
  /\ demo.pc \in {"split", "model"} =>
       demo.df_train[0] = 0 /\ demo.df_test[0] = 0
  /\ demo.pc = "model" =>
       \A l \in Labels :
         (demo.df_train[l] > 0 \/ demo.df_test[l] > 0) =>
           1 <= l /\ l <= demo.num_classes

\* a model for two classes, the larger label in the test frame
C11_Witness ==
  /\ demo.pc = "model"
  /\ demo.num_classes = 2
  /\ demo.df_train[1] > 0
  /\ demo.df_test[2] > 0

\* C12: an optimizer_step call at global step s < 500 runs the parameter
\* update with every group's lr at max_lr * (s + 1) / 500, which is at most
\* max_lr, at least the lr of the call one step earlier, and max_lr at
\* s = 499; a call at s >= 500 leaves every lr as it found it; every call
\* runs optimizer.step() and then optimizer.zero_grad().
C12_LinearWarmup ==
  lit.pc = "stepped" =>
    LET c == lit.last
        s == c.global_step
    IN  /\ s = lit.global_step
        /\ c.ops = <<"step", "zero_grad">>
        /\ lit.grads = "cleared"
        /\ lit.param_groups = c.stepped
        /\ s < Warmup =>
             \A g \in DOMAIN c.stepped :
               /\ c.stepped[g].lr * Warmup = lit.max_lr * (s + 1)
               /\ c.stepped[g].lr <= lit.max_lr
               /\ s = Warmup - 1 => c.stepped[g].lr = lit.max_lr
               /\ (lit.prev # None /\ lit.prev.global_step + 1 = s) =>
                    lit.prev.stepped[g].lr <= c.stepped[g].lr
        /\ s >= Warmup => c.stepped = c.entry

\* the last warm-up step with two groups, after the scheduler had lowered
\* the lr: both groups are back at max_lr
C12_Witness ==
  /\ lit.pc = "stepped"
  /\ lit.global_step = Warmup - 1
  /\ lit.decays > 0
  /\ Len(lit.param_groups) = 2
  /\ lit.last.entry[2].lr < lit.max_lr
  /\ lit.param_groups[2].lr = lit.max_lr

EndHooks == {"on_train_end", "on_test_end"}

\* the second read by the latest start hook matching the end hook `op`
LatestStart(op) ==
  IF op = "on_train_end" THEN hist.train_start ELSE hist.test_start

\* the reading the end hook `op` has just stored
EndReading(op) == IF op = "on_train_end" THEN cb.train_end ELSE cb.test_end

EndMessage(op) ==
  IF op = "on_train_end" THEN "Total compute time"
                         ELSE "Total inference time"

\* an end hook that logs subtracts the reading of the latest matching start
EndReadsLatestStart ==
  (call.op \in EndHooks /\ raised = "None") =>
    /\ LatestStart(call.op) # -1
    /\ log.msg = EndMessage(call.op)
    /\ log.arg.py = "timedelta"
    /\ log.arg.s = EndReading(call.op).s - LatestStart(call.op)
    /\ log.arg.us = 0

\* an end hook no matching start hook preceded fails and logs no time
EndWithoutStartFails ==
  (call.op \in EndHooks /\ LatestStart(call.op) = -1) =>
    /\ raised = "AttributeError"
    /\ phase = "aborted"
    /\ log.msg # EndMessage(call.op)

\* the duration an end hook logs is not negative
DurationNotNegative ==
  (call.op \in EndHooks /\ raised = "None") => log.arg.s >= 0

\* C13: an end hook subtracts the timestamp of the most recent matching
\* start hook; an end hook that no matching start hook preceded fails
\* instead of logging a time; and the logged duration is never negative.
C13_ElapsedFromMatchingStart ==
  /\ EndReadsLatestStart
  /\ EndWithoutStartFails
  /\ DurationNotNegative

====
